---- MODULE Spec2Model ----
(***************************************************************************)
(* create_review_session.py: the review-session job.  One run is the       *)
(* linear pipeline of main(); the external services (catalog, tracking     *)
(* store, dataset service, label-schema registry, labeling sessions, chat) *)
(* are shared state that several runs of the job act on.  Strings are      *)
(* sequences of one-character strings.                                     *)
(***************************************************************************)
EXTENDS Integers, Sequences, FiniteSets, TLC

\* ---------------------------------------------------------------- bounds
MaxLen == 2
MaxTicks == 2
MaxAvail == 2

Runs == {1, 2}

\* ------------------------------------------------------------ characters
Alnum == {"a", "B", "7"}
Alphabet == Alnum \cup {"_", "-", "."}

RECURSIVE StringsUpTo(_)
StringsUpTo(n) ==
    IF n = 0 THEN {<<>>}
    ELSE LET S == StringsUpTo(n - 1)
         IN S \cup {Append(s, c) : s \in {t \in S : Len(t) = n - 1}, c \in Alphabet}

\* ------------------------------------------------------------- constants
LABEL_SCHEMA_NAME == "conversation_quality"
LABEL_SCHEMA_INSTRUCTION == "rate 1-5 and comment"

\* label_schemas.create_label_schema(...) arguments
LabelSchemaDef ==
    [name |-> LABEL_SCHEMA_NAME, type |-> "feedback", min_value |-> 1,
     max_value |-> 5, instruction |-> LABEL_SCHEMA_INSTRUCTION,
     enable_comment |-> TRUE]

\* a definition of the same name left in the registry by someone else
OtherSchemaDef ==
    [name |-> LABEL_SCHEMA_NAME, type |-> "feedback", min_value |-> 1,
     max_value |-> 10, instruction |-> "older rubric",
     enable_comment |-> FALSE]

TrueStr == <<"t", "r", "u", "e">>
FalseStr == <<"f", "a", "l", "s", "e">>
DefaultPrefix == <<"a", "_", "B">>
Catalog == <<"m">>
Schema == <<"s">>
Scope == <<"s", "c">>
Reviewers == <<"a@x.com", "b@x.com">>

\* ------------------------------------------------------------- variables
VARIABLES
    args,           \* run -> parsed command line
    traceStore,     \* the experiment's traces: columns and how many there are
    clock,          \* local wall clock, seconds of the day
    ucSchemas,      \* catalog schemas that exist
    datasets,       \* dataset name -> merged records
    labelSchemas,   \* label schema name -> definition
    schemaWrites,   \* the registrations made, in order
    sessions,       \* labeling sessions, in creation order
    pc,             \* run -> position in main()
    now,            \* run -> clock value read by datetime.now()
    timestamp,      \* run -> strftime result
    safe_prefix,    \* run -> sanitized prefix
    session_name,   \* run -> session name
    uc_table_name,  \* run -> dataset name
    traces_df,      \* run -> the frame returned by _fetch_traces
    dataset,        \* run -> name of the resolved dataset
    labeling_session, \* run -> index of its session in sessions (0: none)
    calls,          \* run -> the external calls it made, in order
    console,        \* run -> what it printed
    exitCode        \* run -> process exit status (-1 while running)

world == <<traceStore, ucSchemas, datasets, labelSchemas, schemaWrites, sessions>>
names == <<now, timestamp, safe_prefix, session_name, uc_table_name>>
locals == <<traces_df, dataset, labeling_session>>
vars == <<args, clock, world, pc, names, locals, calls, console, exitCode>>

\* ------------------------------------------------------------ formatting
Digits == <<"0", "1", "2", "3", "4", "5", "6", "7", "8", "9">>

TwoDigits(n) == <<Digits[(n \div 10) + 1], Digits[(n % 10) + 1]>>

\* strftime("%Y%m%d_%H%M%S"): t is the second of the day, the date is fixed
FormatTimeMinutes(t) ==
    <<"2", "0", "2", "6", "1", "1", "0", "1", "_">>
      \o TwoDigits(t \div 3600) \o TwoDigits((t % 3600) \div 60)

FormatTime(t) ==
    <<"2", "0", "2", "6", "1", "1", "0", "1", "_">>
      \o TwoDigits(t \div 3600) \o TwoDigits((t % 3600) \div 60)
      \o TwoDigits(t % 60)

IsAlnum(c) == c \in Alnum

\* "".join(c if c.isalnum() or c == "_" else "_" for c in prefix)
RECURSIVE SanitizeDropping(_)
SanitizeDropping(s) ==
    IF s = <<>> THEN <<>>
    ELSE (IF IsAlnum(Head(s)) \/ Head(s) = "_" THEN <<Head(s)>> ELSE <<>>)
           \o SanitizeDropping(Tail(s))

RECURSIVE SanitizeFrom(_)
SanitizeFrom(s) ==
    IF s = <<>> THEN <<>>
    ELSE <<IF IsAlnum(Head(s)) \/ Head(s) = "_" THEN Head(s) ELSE "_">>
           \o SanitizeFrom(Tail(s))

Sanitize(s) == SanitizeFrom(s)

\* f"{safe_prefix}_{timestamp}"
SessionName(safe, ts) == safe \o <<"_">> \o ts

UcTableName(catalog, schema, session) ==
    catalog \o <<".">> \o schema \o <<".">> \o session

\* str.lower() on the characters the flags use
LowerChar(c) ==
    CASE c = "T" -> "t"
      [] c = "R" -> "r"
      [] c = "U" -> "u"
      [] c = "E" -> "e"
      [] c = "Y" -> "y"
      [] OTHER -> c

Lower(s) == [i \in 1..Len(s) |-> LowerChar(s[i])]

\* args.notify_users.lower() == "true" and args.slack_secret_scope
NotifyConditionExact(a) == a.notify_users = TrueStr /\ a.slack_secret_scope # <<>>

NotifyCondition(a) == Lower(a.notify_users) = TrueStr /\ a.slack_secret_scope # <<>>

\* the two renames of _fetch_traces
RenameRequestAlways(cols) ==
    IF "request" \in cols
    THEN (cols \ {"request"}) \cup {"inputs"}
    ELSE cols

RenameRequest(cols) ==
    IF "request" \in cols /\ "inputs" \notin cols
    THEN (cols \ {"request"}) \cup {"inputs"}
    ELSE cols

RenameResponse(cols) ==
    IF "response" \in cols /\ "outputs" \notin cols
    THEN (cols \ {"response"}) \cup {"outputs"}
    ELSE cols

RenameColumns(cols) == RenameResponse(RenameRequest(cols))

\* mlflow.search_traces(max_results=n, order_by timestamp DESC): the n most
\* recent of the store's traces, newest first (trace i is older than i + 1)
SearchTraces(store, n) ==
    LET k == IF n < store.avail THEN n ELSE store.avail
    IN [cols |-> store.cols, rows |-> [i \in 1..k |-> store.avail + 1 - i]]

NoFrame == [cols |-> {}, rows |-> <<>>]

\* one external call: what was passed, and the exception it raised ("": none)
Call(op, name, df, err) ==
    [op |-> op, name |-> name, rows |-> df.rows, cols |-> df.cols,
     n |-> Len(df.rows), err |-> err]

Say(msg, n) == [msg |-> msg, n |-> n]

Ops(r) == {calls[r][i].op : i \in 1..Len(calls[r])}
Said(r) == {console[r][i].msg : i \in 1..Len(console[r])}
\* ------------------------------------------------------------------ Init
DefaultCols == {"trace_id", "request", "response"}

ColumnSets == {{"trace_id"} \cup S : S \in SUBSET {"request", "response", "inputs", "outputs"}}

Flags ==
    {TrueStr, <<"T", "R", "U", "E">>, <<"T", "r", "u", "e">>, <<"t", "R", "u", "E">>,
     FalseStr, <<>>, <<"y", "e", "s">>, <<"Y", "E", "S">>, <<"t", "r", "u">>,
     <<"t", "r", "u", "e", " ">>, <<" ", "t", "r", "u", "e">>, <<"1">>}

Scopes == {<<>>, Scope, <<" ">>}

Args(prefix, notify, scope, num) ==
    [session_name_prefix |-> prefix, notify_users |-> notify,
     slack_secret_scope |-> scope, num_traces |-> num,
     uc_catalog |-> Catalog, uc_schema |-> Schema, reviewer_emails |-> Reviewers]

\* two runs of the job at once, on the same catalog and schema
InitConcurrent ==
    /\ args \in [Runs -> {Args(p, f, Scope, MaxAvail + 1) :
                            p \in {<<"a", "-">>, <<"a", ".">>},
                            f \in {<<"T", "R", "U", "E">>, FalseStr}}]
    /\ traceStore \in {[cols |-> DefaultCols, avail |-> k] : k \in {0, MaxAvail}}
    /\ labelSchemas \in {<<>>, LABEL_SCHEMA_NAME :> OtherSchemaDef}
    /\ pc = [r \in Runs |-> "start"]

\* one run, over every prefix, every flag and scope, every frame
InitSingle ==
    /\ \/ /\ args \in [Runs -> {Args(p, FalseStr, <<>>, MaxAvail) : p \in StringsUpTo(MaxLen)}]
          /\ traceStore = [cols |-> DefaultCols, avail |-> MaxAvail]
       \/ /\ args \in [Runs -> {Args(DefaultPrefix, f, s, MaxAvail) : f \in Flags, s \in Scopes}]
          /\ traceStore = [cols |-> DefaultCols, avail |-> 1]
       \/ /\ args \in [Runs -> {Args(DefaultPrefix, FalseStr, <<>>, n) : n \in 1..(MaxAvail + 1)}]
          /\ traceStore \in {[cols |-> c, avail |-> k] : c \in ColumnSets, k \in 0..MaxAvail}
    /\ args[1] = args[2]
    /\ labelSchemas = <<>>
    /\ pc = [r \in Runs |-> IF r = 1 THEN "start" ELSE "off"]

Init ==
    /\ InitConcurrent \/ InitSingle
    /\ clock = 58
    /\ ucSchemas = {}
    /\ datasets = <<>>
    /\ schemaWrites = <<>>
    /\ sessions = <<>>
    /\ now = [r \in Runs |-> -1]
    /\ timestamp = [r \in Runs |-> <<>>]
    /\ safe_prefix = [r \in Runs |-> <<>>]
    /\ session_name = [r \in Runs |-> <<>>]
    /\ uc_table_name = [r \in Runs |-> <<>>]
    /\ traces_df = [r \in Runs |-> NoFrame]
    /\ dataset = [r \in Runs |-> <<>>]
    /\ labeling_session = [r \in Runs |-> 0]
    /\ calls = [r \in Runs |-> <<>>]
    /\ console = [r \in Runs |-> <<>>]
    /\ exitCode = [r \in Runs |-> -1]

\* --------------------------------------------------------------- actions
Goto(r, to) == pc' = [pc EXCEPT ![r] = to]
Did(r, c) == calls' = [calls EXCEPT ![r] = Append(@, c)]
Echo(r, msg, n) == console' = [console EXCEPT ![r] = Append(@, Say(msg, n))]

\* an exception nothing catches: the interpreter ends the process with status 1
Crash(r) ==
    /\ Goto(r, "crashed")
    /\ exitCode' = [exitCode EXCEPT ![r] = 1]

\* the local clock advances while a run has yet to read it
Tick ==
    /\ clock < 58 + MaxTicks
    /\ \E r \in Runs : pc[r] = "start"
    /\ clock' = clock + 1
    /\ UNCHANGED <<args, world, pc, names, locals, calls, console, exitCode>>

\* main(): timestamp, safe_prefix, session_name, uc_table_name
BuildNames(r) ==
    /\ pc[r] = "start"
    /\ LET ts == FormatTime(clock)
           safe == Sanitize(args[r].session_name_prefix)
           sess == SessionName(safe, ts)
       IN /\ now' = [now EXCEPT ![r] = clock]
          /\ timestamp' = [timestamp EXCEPT ![r] = ts]
          /\ safe_prefix' = [safe_prefix EXCEPT ![r] = safe]
          /\ session_name' = [session_name EXCEPT ![r] = sess]
          /\ uc_table_name' = [uc_table_name EXCEPT ![r] =
                                 UcTableName(args[r].uc_catalog, args[r].uc_schema, sess)]
    /\ Goto(r, "init_spark")
    /\ UNCHANGED <<args, clock, world, locals, calls, console, exitCode>>

\* _init_spark: CREATE SCHEMA IF NOT EXISTS
InitSpark(r) ==
    /\ pc[r] = "init_spark"
    /\ ucSchemas' = ucSchemas \cup {<<args[r].uc_catalog, args[r].uc_schema>>}
    /\ Did(r, Call("create_schema", args[r].uc_catalog \o <<".">> \o args[r].uc_schema,
                   NoFrame, ""))
    /\ Goto(r, "fetch")
    /\ UNCHANGED <<args, clock, traceStore, datasets, labelSchemas, schemaWrites,
                   sessions, names, locals, console, exitCode>>

\* _fetch_traces without the empty check
FetchTracesNoExit(r) ==
    /\ pc[r] = "fetch"
    /\ LET df == SearchTraces(traceStore, args[r].num_traces)
       IN /\ Did(r, Call("search_traces", <<>>, df, ""))
          /\ traces_df' = [traces_df EXCEPT ![r] =
                             [cols |-> RenameColumns(df.cols), rows |-> df.rows]]
          /\ Echo(r, "Found traces", Len(df.rows))
          /\ Goto(r, "get_dataset")
          /\ UNCHANGED exitCode
    /\ UNCHANGED <<args, clock, world, names, dataset, labeling_session>>

\* _fetch_traces, and main's "Found N traces"
FetchTraces(r) ==
    /\ pc[r] = "fetch"
    /\ LET df == SearchTraces(traceStore, args[r].num_traces)
       IN /\ Did(r, Call("search_traces", <<>>, df, ""))
          /\ IF df.rows = <<>> \/ df.cols = {}
             THEN /\ Echo(r, "ERROR: No traces found", 0)
                  /\ Goto(r, "exited")
                  /\ exitCode' = [exitCode EXCEPT ![r] = 1]
                  /\ UNCHANGED traces_df
             ELSE /\ traces_df' = [traces_df EXCEPT ![r] =
                                     [cols |-> RenameColumns(df.cols), rows |-> df.rows]]
                  /\ Echo(r, "Found traces", Len(df.rows))
                  /\ Goto(r, "get_dataset")
                  /\ UNCHANGED exitCode
    /\ UNCHANGED <<args, clock, world, names, dataset, labeling_session>>

\* _get_or_create_dataset with no fallback: the failed fetch ends the run
GetDatasetNoFallback(r) ==
    /\ pc[r] = "get_dataset"
    /\ \E err \in (IF uc_table_name[r] \in DOMAIN datasets
                    THEN {"", "unavailable"} ELSE {"not_found"}) :
         /\ Did(r, Call("get_dataset", uc_table_name[r], NoFrame, err))
         /\ IF err = ""
            THEN /\ dataset' = [dataset EXCEPT ![r] = uc_table_name[r]]
                 /\ Echo(r, "Reusing existing dataset", 0)
                 /\ Goto(r, "merge")
                 /\ UNCHANGED exitCode
            ELSE /\ Crash(r)
                 /\ UNCHANGED <<dataset, console>>
    /\ UNCHANGED <<args, clock, world, names, traces_df, labeling_session>>

\* _get_or_create_dataset, the try: get_dataset(name) raises when the dataset
\* does not exist, and may raise for any other reason when it does
GetDataset(r) ==
    /\ pc[r] = "get_dataset"
    /\ \E err \in (IF uc_table_name[r] \in DOMAIN datasets
                    THEN {"", "unavailable"} ELSE {"not_found"}) :
         /\ Did(r, Call("get_dataset", uc_table_name[r], NoFrame, err))
         /\ IF err = ""
            THEN /\ dataset' = [dataset EXCEPT ![r] = uc_table_name[r]]
                 /\ Echo(r, "Reusing existing dataset", 0)
                 /\ Goto(r, "merge")
            ELSE /\ Goto(r, "create_dataset")
                 /\ UNCHANGED <<dataset, console>>
    /\ UNCHANGED <<args, clock, world, names, traces_df, labeling_session, exitCode>>

\* _get_or_create_dataset, the except: create_dataset(name).  On a name that
\* exists by now the service either refuses (the exception is not caught) or
\* hands back the existing dataset.
CreateDataset(r) ==
    /\ pc[r] = "create_dataset"
    /\ \E err \in (IF uc_table_name[r] \in DOMAIN datasets
                    THEN {"", "already_exists"} ELSE {""}) :
         /\ Did(r, Call("create_dataset", uc_table_name[r], NoFrame, err))
         /\ IF err = ""
            THEN /\ datasets' = datasets @@ (uc_table_name[r] :> {})
                 /\ dataset' = [dataset EXCEPT ![r] = uc_table_name[r]]
                 /\ Echo(r, "Created new dataset", 0)
                 /\ Goto(r, "merge")
                 /\ UNCHANGED exitCode
            ELSE /\ Crash(r)
                 /\ UNCHANGED <<datasets, dataset, console>>
    /\ UNCHANGED <<args, clock, traceStore, ucSchemas, labelSchemas, schemaWrites,
                   sessions, names, traces_df, labeling_session>>
\* the merge losing the first row of the frame
MergeRecordsDropping(r) ==
    /\ pc[r] = "merge"
    /\ LET df == [cols |-> traces_df[r].cols, rows |-> Tail(traces_df[r].rows)]
       IN /\ datasets' = [datasets EXCEPT ![dataset[r]] =
                            @ \cup {df.rows[i] : i \in 1..Len(df.rows)}]
          /\ Did(r, Call("merge_records", dataset[r], df, ""))
    /\ Echo(r, "Merged records", Len(traces_df[r].rows))
    /\ Goto(r, "label_schema")
    /\ UNCHANGED <<args, clock, traceStore, ucSchemas, labelSchemas, schemaWrites,
                   sessions, names, locals, exitCode>>

\* dataset.merge_records(traces_df), and "Merged N records"
MergeRecords(r) ==
    /\ pc[r] = "merge"
    /\ datasets' = [datasets EXCEPT ![dataset[r]] =
                      @ \cup {traces_df[r].rows[i] : i \in 1..Len(traces_df[r].rows)}]
    /\ Did(r, Call("merge_records", dataset[r], traces_df[r], ""))
    /\ Echo(r, "Merged records", Len(traces_df[r].rows))
    /\ Goto(r, "label_schema")
    /\ UNCHANGED <<args, clock, traceStore, ucSchemas, labelSchemas, schemaWrites,
                   sessions, names, locals, exitCode>>

\* create_label_schema(..., overwrite=False) on a registry that keeps what it has
RegisterIfAbsent(registry, def) == registry @@ (def.name :> def)

\* create_label_schema(..., overwrite=True)
RegisterLabelSchema(registry, def) == (def.name :> def) @@ registry

\* _ensure_label_schema
EnsureLabelSchema(r) ==
    /\ pc[r] = "label_schema"
    /\ labelSchemas' = RegisterLabelSchema(labelSchemas, LabelSchemaDef)
    /\ schemaWrites' = Append(schemaWrites, [run |-> r, def |-> LabelSchemaDef])
    /\ Did(r, Call("create_label_schema", <<>>, NoFrame, ""))
    /\ Echo(r, "Schema ready", 0)
    /\ Goto(r, "create_session")
    /\ UNCHANGED <<args, clock, traceStore, ucSchemas, datasets, sessions, names,
                   locals, exitCode>>

\* create_labeling_session(name, assigned_users, label_schemas)
CreateLabelingSession(r) ==
    /\ pc[r] = "create_session"
    /\ sessions' = Append(sessions,
                          [name |-> session_name[r],
                           assigned_users |-> args[r].reviewer_emails,
                           label_schemas |-> <<LABEL_SCHEMA_NAME>>,
                           dataset |-> <<>>])
    /\ labeling_session' = [labeling_session EXCEPT ![r] = Len(sessions) + 1]
    /\ Did(r, Call("create_labeling_session", session_name[r], NoFrame, ""))
    /\ Goto(r, "add_dataset")
    /\ UNCHANGED <<args, clock, traceStore, ucSchemas, datasets, labelSchemas,
                   schemaWrites, names, traces_df, dataset, console, exitCode>>

\* labeling_session.add_dataset(dataset_name=uc_table_name)
AddDataset(r) ==
    /\ pc[r] = "add_dataset"
    /\ sessions' = [sessions EXCEPT ![labeling_session[r]].dataset = uc_table_name[r]]
    /\ Did(r, Call("add_dataset", uc_table_name[r], NoFrame, ""))
    /\ Goto(r, "notify")
    /\ UNCHANGED <<args, clock, traceStore, ucSchemas, datasets, labelSchemas,
                   schemaWrites, names, locals, console, exitCode>>

\* main(), step 7: the guard of the notification
NotifyDecision(r) ==
    /\ pc[r] = "notify"
    /\ IF NotifyCondition(args[r])
       THEN /\ Echo(r, "Sending Slack notification...", 0)
            /\ Goto(r, "get_secret")
       ELSE /\ Echo(r, "Skipping Slack notification", 0)
            /\ Goto(r, "summary")
    /\ UNCHANGED <<args, clock, world, names, locals, calls, exitCode>>

\* _send_slack_notification: _get_secret(scope, "slack-bot-token")
GetSecret(r) ==
    /\ pc[r] = "get_secret"
    /\ \E err \in {"", "error"} :
         /\ Did(r, Call("get_secret", args[r].slack_secret_scope, NoFrame, err))
         /\ IF err = "" THEN Goto(r, "lookup") /\ UNCHANGED exitCode ELSE Crash(r)
    /\ UNCHANGED <<args, clock, world, names, locals, console>>

\* _send_slack_notification: client.users_lookupByEmail
UsersLookup(r) ==
    /\ pc[r] = "lookup"
    /\ \E err \in {"", "error"} :
         /\ Did(r, Call("users_lookupByEmail", <<>>, NoFrame, err))
         /\ IF err = "" THEN Goto(r, "post") /\ UNCHANGED exitCode ELSE Crash(r)
    /\ UNCHANGED <<args, clock, world, names, locals, console>>

\* the post with its failure caught: the run goes on to the summary
PostMessageCaught(r) ==
    /\ pc[r] = "post"
    /\ \E err \in {"", "error"} :
         /\ Did(r, Call("chat_postMessage", session_name[r], traces_df[r], err))
         /\ IF err = ""
            THEN Echo(r, "Slack notification sent", 0)
            ELSE UNCHANGED console
         /\ Goto(r, "summary")
    /\ UNCHANGED <<args, clock, world, names, locals, exitCode>>

\* _send_slack_notification: client.chat_postMessage, the text holding the
\* session name and num_traces = len(traces_df)
PostMessage(r) ==
    /\ pc[r] = "post"
    /\ \E err \in {"", "error"} :
         /\ Did(r, Call("chat_postMessage", session_name[r], traces_df[r], err))
         /\ IF err = ""
            THEN /\ Echo(r, "Slack notification sent", 0)
                 /\ Goto(r, "summary")
                 /\ UNCHANGED exitCode
            ELSE /\ Crash(r)
                 /\ UNCHANGED console
    /\ UNCHANGED <<args, clock, world, names, locals>>

\* main(), step 8: the summary, then the process ends with status 0
PrintSummary(r) ==
    /\ pc[r] = "summary"
    /\ Echo(r, "Review session created successfully!", Len(traces_df[r].rows))
    /\ Goto(r, "done")
    /\ exitCode' = [exitCode EXCEPT ![r] = 0]
    /\ UNCHANGED <<args, clock, world, names, locals, calls>>

Main(r) ==
    \/ BuildNames(r)
    \/ InitSpark(r)
    \/ FetchTraces(r)
    \/ GetDataset(r)
    \/ CreateDataset(r)
    \/ MergeRecords(r)
    \/ EnsureLabelSchema(r)
    \/ CreateLabelingSession(r)
    \/ AddDataset(r)
    \/ NotifyDecision(r)
    \/ GetSecret(r)
    \/ UsersLookup(r)
    \/ PostMessage(r)
    \/ PrintSummary(r)

Next == Tick \/ \E r \in Runs : Main(r)

Spec == Init /\ [][Next]_vars
\* ---------------------------------------------------------------- claims
CallsOf(r, op) == SelectSeq(calls[r], LAMBDA c : c.op = op)
FailedCalls(r, ops) == {i \in 1..Len(calls[r]) : calls[r][i].op \in ops /\ calls[r][i].err # ""}
ChatOps == {"get_secret", "users_lookupByEmail", "chat_postMessage"}
ChatFailed(r) == FailedCalls(r, ChatOps) # {}
Legal == Alnum \cup {"_"}
Pointwise(p) == [i \in 1..Len(p) |-> IF p[i] \in Legal THEN p[i] ELSE "_"]
DigitVal(c) == CHOOSE d \in 0..9 : Digits[d + 1] = c
Named(r) == pc[r] \notin {"off", "start"}
Started == {r \in Runs : pc[r] # "off"}

ZeroRows(r) ==
    \E i \in 1..Len(calls[r]) : calls[r][i].op = "search_traces" /\ calls[r][i].rows = <<>>

\* C1, as stated: a run whose trace query returned zero rows has exited with
\* status 1 and has issued no mutating call at all: no schema creation, no
\* dataset get/create/merge, no label-schema registration, no session creation
\* or attachment, no notification.
C1_NoMutationAtAll ==
    \A r \in Runs : ZeroRows(r) =>
        /\ pc[r] = "exited" /\ exitCode[r] = 1
        /\ Ops(r) \cap ({"create_schema", "get_dataset", "create_dataset", "merge_records",
                         "create_label_schema", "create_labeling_session", "add_dataset"}
                        \cup ChatOps) = {}

\* C1, amended: a run whose trace query returned zero rows has exited with
\* status 1 having made exactly two calls, the CREATE SCHEMA IF NOT EXISTS of
\* step 2 and the query itself; it has resolved no dataset, registered no label
\* schema, created no session and sent nothing, and when it is the only run the
\* dataset service, the registry and the sessions are untouched while the
\* catalog schema exists.
C1_ZeroRowsExit ==
    \A r \in Runs : ZeroRows(r) =>
        /\ pc[r] = "exited" /\ exitCode[r] = 1
        /\ Len(calls[r]) = 2
        /\ calls[r][1].op = "create_schema" /\ calls[r][2].op = "search_traces"
        /\ dataset[r] = <<>> /\ labeling_session[r] = 0
        /\ \A i \in 1..Len(schemaWrites) : schemaWrites[i].run # r
        /\ <<args[r].uc_catalog, args[r].uc_schema>> \in ucSchemas
        /\ Started = {r} => datasets = <<>> /\ sessions = <<>> /\ labelSchemas = <<>>

C1_Witness == \E r \in Runs : ZeroRows(r) /\ pc[r] = "exited" /\ Started = {r}

FlagIsTrue(s) ==
    /\ Len(s) = 4
    /\ s[1] \in {"t", "T"} /\ s[2] \in {"r", "R"} /\ s[3] \in {"u", "U"} /\ s[4] \in {"e", "E"}

Wanted(r) == FlagIsTrue(args[r].notify_users) /\ Len(args[r].slack_secret_scope) > 0

\* C2: a run calls the chat service (secret fetch, user lookup, post) only when
\* notify_users is "true" in any letter case and the secret scope is non-empty;
\* once past the guard of step 7 such a run has started the notification (the
\* secret fetch first, then the lookup, then the post, once each when none
\* fails), and every other run has made no chat call, is at the summary or done,
\* never crashed, and ends with the summary printed and status 0.
C2_NotifyIff ==
    \A r \in Runs :
        /\ Ops(r) \cap ChatOps # {} => Wanted(r)
        /\ ("add_dataset" \in Ops(r) /\ pc[r] # "notify") =>
             IF Wanted(r)
             THEN /\ pc[r] \in {"get_secret", "lookup", "post", "summary", "done", "crashed"}
                  /\ pc[r] # "get_secret" => Len(CallsOf(r, "get_secret")) = 1
                  /\ pc[r] \in {"summary", "done"} =>
                       /\ \A op \in ChatOps : Len(CallsOf(r, op)) = 1
                       /\ SubSeq(calls[r], Len(calls[r]) - 2, Len(calls[r])) =
                            <<CallsOf(r, "get_secret")[1],
                              CallsOf(r, "users_lookupByEmail")[1],
                              CallsOf(r, "chat_postMessage")[1]>>
             ELSE /\ pc[r] \in {"summary", "done"}
                  /\ Ops(r) \cap ChatOps = {}
                  /\ "Skipping Slack notification" \in Said(r)
                  /\ pc[r] = "summary" => ENABLED PrintSummary(r)
                  /\ pc[r] = "done" =>
                       /\ "Review session created successfully!" \in Said(r)
                       /\ exitCode[r] = 0

C2_Witness ==
    \E r \in Runs :
        /\ args[r].notify_users = <<"T", "R", "U", "E">> /\ pc[r] = "done"
        /\ "chat_postMessage" \in Ops(r)

\* C3: dataset resolution makes exactly one fetch-by-name, on the derived name;
\* a fetch that succeeds is followed by no create and its dataset is the
\* resolved one; a fetch that fails, whatever the error, is followed by exactly
\* one create on the same name, made right after it, whose result (when it
\* returns) is the resolved dataset.
C3_GetOrCreate ==
    \A r \in Runs :
        LET G == CallsOf(r, "get_dataset")
            C == CallsOf(r, "create_dataset")
        IN /\ Len(G) <= 1 /\ Len(C) <= 1
           /\ pc[r] \in {"off", "start", "init_spark", "fetch", "exited", "get_dataset"}
                => Len(G) = 0 /\ Len(C) = 0 /\ dataset[r] = <<>>
           /\ pc[r] \notin {"off", "start", "init_spark", "fetch", "exited", "get_dataset"}
                => Len(G) = 1 /\ G[1].name = uc_table_name[r]
           /\ (Len(G) = 1 /\ G[1].err = "") => Len(C) = 0 /\ dataset[r] = G[1].name
           /\ (Len(G) = 1 /\ G[1].err # "") =>
                IF pc[r] = "create_dataset"
                THEN Len(C) = 0 /\ dataset[r] = <<>>
                ELSE /\ Len(C) = 1 /\ C[1].name = G[1].name
                     /\ \E i \in 1..(Len(calls[r]) - 1) : calls[r][i] = G[1] /\ calls[r][i + 1] = C[1]
                     /\ IF C[1].err = ""
                        THEN dataset[r] = C[1].name /\ C[1].name \in DOMAIN datasets
                        ELSE dataset[r] = <<>> /\ pc[r] = "crashed"

C3_Witness ==
    \E r \in Runs :
        /\ Len(CallsOf(r, "get_dataset")) = 1 /\ CallsOf(r, "get_dataset")[1].err = "unavailable"
        /\ Len(CallsOf(r, "create_dataset")) = 1 /\ CallsOf(r, "create_dataset")[1].err = ""
        /\ dataset[r] = uc_table_name[r] /\ pc[r] = "label_schema"

C4_State ==
    \A r \in Runs : ChatFailed(r) =>
        /\ pc[r] = "crashed" /\ exitCode[r] > 0
        /\ "Review session created successfully!" \notin Said(r)
        /\ dataset[r] \in DOMAIN datasets
        /\ {traces_df[r].rows[i] : i \in 1..Len(traces_df[r].rows)} \subseteq datasets[dataset[r]]
        /\ datasets[dataset[r]] # {}
        /\ LABEL_SCHEMA_NAME \in DOMAIN labelSchemas
        /\ labeling_session[r] \in 1..Len(sessions)
        /\ sessions[labeling_session[r]].name = session_name[r]
        /\ sessions[labeling_session[r]].dataset = uc_table_name[r]

C4_Step ==
    \A r \in Runs :
        (pc[r] \in {"get_secret", "lookup", "post", "crashed"} /\ <<pc[r], calls[r]>>' # <<pc[r], calls[r]>>)
            => /\ UNCHANGED world
               /\ pc[r] # "crashed"

\* C4: a failed chat call is not caught: the run is crashed with a non-zero
\* status and no success summary, while its dataset with the merged rows, the
\* label schema and its session with the attached dataset are all in place; no
\* step of the notification (failing or not) changes any dataset, schema or
\* session, and a crashed run takes no further step.
C4_NoRollback == []C4_State /\ [][C4_Step]_vars

C4_Witness ==
    \E r \in Runs :
        /\ ChatFailed(r) /\ pc[r] = "crashed"
        /\ sessions[labeling_session[r]].dataset = uc_table_name[r]
        /\ Len(traces_df[r].rows) = MaxAvail

Fetched(r) == Len(CallsOf(r, "search_traces")) = 1 /\ ~ZeroRows(r)
Returned(r) == CallsOf(r, "search_traces")[1]

\* C6: request becomes inputs exactly when request is among the returned
\* columns and inputs is not, response becomes outputs exactly when response is
\* there and outputs is not, each whatever the other does; nothing else changes,
\* no column is lost, columns holding inputs and outputs already are left as
\* they are, the two renames give the same columns in either order, and the
\* step applied to its own result changes nothing.
C6_Rename ==
    \A r \in Runs : Fetched(r) =>
        LET c0 == Returned(r).cols
            c1 == traces_df[r].cols
            req == "request" \in c0 /\ "inputs" \notin c0
            resp == "response" \in c0 /\ "outputs" \notin c0
        IN /\ "inputs" \in c1 <=> ("inputs" \in c0 \/ req)
           /\ "request" \in c1 <=> ("request" \in c0 /\ ~req)
           /\ "outputs" \in c1 <=> ("outputs" \in c0 \/ resp)
           /\ "response" \in c1 <=> ("response" \in c0 /\ ~resp)
           /\ c1 \ {"request", "inputs", "response", "outputs"}
                = c0 \ {"request", "inputs", "response", "outputs"}
           /\ Cardinality(c1) = Cardinality(c0)
           /\ {"inputs", "outputs"} \subseteq c0 => c1 = c0
           /\ RenameRequest(RenameResponse(c0)) = c1
           /\ RenameColumns(c1) = c1

C6_Witness ==
    \E r \in Runs :
        /\ Fetched(r)
        /\ Returned(r).cols = {"trace_id", "request", "inputs", "response"}
        /\ traces_df[r].cols = {"trace_id", "request", "inputs", "outputs"}

AfterMerge(r) ==
    \/ pc[r] \in {"label_schema", "create_session", "add_dataset", "notify", "get_secret",
                  "lookup", "post", "summary", "done"}
    \/ pc[r] = "crashed" /\ ChatFailed(r)

\* C7: a run whose query returned N >= 1 rows makes at most one merge call, and
\* exactly one once it is past step 4; the call is on the dataset it resolved,
\* whose name is catalog.schema.session_name, and carries exactly the N returned
\* rows, in order, under the renamed columns; those rows are then in the
\* dataset, and the count in the chat message and in the summary is N, also
\* when N is not the requested count.
C7_MergeExactlyN ==
    \A r \in Runs :
        LET M == CallsOf(r, "merge_records")
        IN /\ Len(M) <= 1
           /\ Len(M) = 1 <=> AfterMerge(r)
           /\ Len(M) = 1 =>
                /\ Fetched(r)
                /\ M[1].name = args[r].uc_catalog \o <<".">> \o args[r].uc_schema
                                 \o <<".">> \o session_name[r]
                /\ M[1].name = dataset[r]
                /\ M[1].rows = Returned(r).rows
                /\ Len(M[1].rows) >= 1 /\ M[1].n = Len(Returned(r).rows)
                /\ Cardinality({M[1].rows[i] : i \in 1..Len(M[1].rows)}) = Len(Returned(r).rows)
                /\ M[1].cols = RenameColumns(Returned(r).cols)
                /\ {Returned(r).rows[i] : i \in 1..Len(Returned(r).rows)} \subseteq datasets[M[1].name]
           /\ \A i \in 1..Len(calls[r]) :
                calls[r][i].op = "chat_postMessage" => calls[r][i].n = Len(Returned(r).rows)
           /\ \A i \in 1..Len(console[r]) :
                console[r][i].msg \in {"Review session created successfully!", "Merged records"}
                    => console[r][i].n = Len(Returned(r).rows)

C7_Witness ==
    \E r \in Runs :
        /\ pc[r] = "done" /\ Len(CallsOf(r, "merge_records")) = 1
        /\ Len(Returned(r).rows) = MaxAvail /\ args[r].num_traces = MaxAvail + 1
        /\ "chat_postMessage" \in Ops(r)

\* C8: two runs that derive the same dataset name both get through dataset
\* resolution: a run whose fetch-by-name found no such dataset never has its
\* create-by-name end in an error.
C8_Tolerates ==
    \A r \in Runs :
        (\E i \in 1..Len(calls[r]) : calls[r][i].op = "get_dataset" /\ calls[r][i].err = "not_found")
            => FailedCalls(r, {"create_dataset"}) = {}

C10_LastWriterWins ==
    /\ schemaWrites # <<>> =>
         /\ DOMAIN labelSchemas = {LABEL_SCHEMA_NAME}
         /\ labelSchemas[LABEL_SCHEMA_NAME] = schemaWrites[Len(schemaWrites)].def
         /\ labelSchemas[LABEL_SCHEMA_NAME].min_value = 1
         /\ labelSchemas[LABEL_SCHEMA_NAME].max_value = 5
         /\ labelSchemas[LABEL_SCHEMA_NAME].enable_comment
    /\ \A r \in Runs :
         LET W == {i \in 1..Len(schemaWrites) : schemaWrites[i].run = r}
         IN /\ Cardinality(W) <= 1
            /\ Cardinality(W) = 1 <=> "create_label_schema" \in Ops(r)
            /\ (AfterMerge(r) /\ pc[r] # "label_schema") => Cardinality(W) = 1
            /\ labeling_session[r] # 0 => Cardinality(W) = 1
            /\ \A i, j \in 1..Len(calls[r]) :
                 (calls[r][i].op = "create_label_schema" /\ calls[r][j].op = "create_labeling_session")
                     => i < j

C10_Witness ==
    /\ Len(schemaWrites) = 2
    /\ schemaWrites[1].run = 2 /\ schemaWrites[2].run = 1
    /\ labeling_session[2] = 0 /\ labeling_session[1] = 1
====
